---- MODULE Spec2Model ----
(***************************************************************************)
(* publiclinks: the file-record lifecycle of main.py over the Record Store *)
(* (database.py), the Blob Store (r2.py) and the short-link provider       *)
(* (dub.py).  Every request handler is a coroutine of one event loop       *)
(* (uvicorn.run(app), main.py:315): its position advances one backend call *)
(* at a time, another handler runs only while it is suspended in an await, *)
(* and the process can stop between any two calls.                         *)
(*                                                                         *)
(* A Python str is a sequence of one-character strings; Python's None is   *)
(* the one-element sequence None, which no str equals.                     *)
(***************************************************************************)
EXTENDS Integers, Sequences, FiniteSets, TLC

None == <<"None">>

\* ------------------------------------------------------------- bounds
\* handler invocations started in one behaviour
MaxRequests == 2
\* OAuth callbacks handled in one behaviour
MaxLogins == 2

\* ---------------------------------------------------------- str helpers
LowerAlphabet ==
  <<"a","b","c","d","e","f","g","h","i","j","k","l","m",
    "n","o","p","q","r","s","t","u","v","w","x","y","z">>
UpperAlphabet ==
  <<"A","B","C","D","E","F","G","H","I","J","K","L","M",
    "N","O","P","Q","R","S","T","U","V","W","X","Y","Z">>
DigitChars == {"0","1","2","3","4","5","6","7","8","9"}
Range(s) == {s[i] : i \in DOMAIN s}
\* the class [a-zA-Z0-9-] of dub.py:20
KeyChars == Range(LowerAlphabet) \cup Range(UpperAlphabet) \cup DigitChars \cup {"-"}
\* what str.strip() with no argument removes
Whitespace == {" ", "\t", "\n", "\r", "\f"}

SetMax(S) == CHOOSE x \in S : \A y \in S : y <= x
SetMin(S) == CHOOSE x \in S : \A y \in S : x <= y

\* str.rfind, 1-based, 0 when absent
RFind(s, ch) ==
  LET I == {i \in DOMAIN s : s[i] = ch}
  IN  IF I = {} THEN 0 ELSE SetMax(I)

\* os.path.splitext(p)[0]: cut at the last dot of the last path component,
\* unless only dots precede it in that component
SplitextRoot(p) ==
  LET sepIndex == RFind(p, "/")
      dotIndex == RFind(p, ".")
  IN  IF dotIndex > sepIndex
         /\ \E i \in (sepIndex + 1)..(dotIndex - 1) : p[i] # "."
      THEN SubSeq(p, 1, dotIndex - 1)
      ELSE p

\* re.sub(r'[^a-zA-Z0-9-]', '-', key)
ReplaceSpecial(s) == [i \in DOMAIN s |-> IF s[i] \in KeyChars THEN s[i] ELSE "-"]

\* re.sub(r'-+', '-', key)
RECURSIVE CollapseHyphens(_)
CollapseHyphens(s) ==
  IF Len(s) < 2 THEN s
  ELSE IF s[1] = "-" /\ s[2] = "-" THEN CollapseHyphens(Tail(s))
  ELSE <<s[1]>> \o CollapseHyphens(Tail(s))

\* str.strip(chars): drop the leading and trailing characters that are in chars
StripChars(s, chars) ==
  LET keep == {i \in DOMAIN s : s[i] \notin chars}
  IN  IF keep = {} THEN <<>> ELSE SubSeq(s, SetMin(keep), SetMax(keep))

ToLowerChar(ch) ==
  IF \E i \in DOMAIN UpperAlphabet : UpperAlphabet[i] = ch
  THEN LowerAlphabet[CHOOSE i \in DOMAIN UpperAlphabet : UpperAlphabet[i] = ch]
  ELSE ch
\* str.lower()
Lower(s) == [i \in DOMAIN s |-> ToLowerChar(s[i])]

\* the length limit of dub.py:28
KeyLimit == 50
Truncate(s, n) == SubSeq(s, 1, IF Len(s) < n THEN Len(s) ELSE n)

\* mutant: runs of hyphens are not collapsed
sanitize_key_NoCollapse(key) ==
  Truncate(Lower(StripChars(ReplaceSpecial(SplitextRoot(key)), {"-"})), KeyLimit)

\* dub.sanitize_key
sanitize_key(key) ==
  Truncate(Lower(StripChars(CollapseHyphens(ReplaceSpecial(SplitextRoot(key))), {"-"})), KeyLimit)

\* str.endswith
EndsWith(s, suffix) ==
  /\ Len(suffix) <= Len(s)
  /\ SubSeq(s, Len(s) - Len(suffix) + 1, Len(s)) = suffix

\* ------------------------------------------------------ configuration
\* main.py:28 ALLOWED_EMAIL_DOMAIN, here the domain "x.io"
ALLOWED_EMAIL_DOMAIN == <<"x",".","i","o">>

\* what the identity provider can return as userinfo (sub, email, name, picture)
Identities ==
  { [sub |-> <<"1">>, email |-> <<"a","@","x",".","i","o">>, name |-> <<"A">>, picture |-> None],
    [sub |-> <<"2">>, email |-> <<"b","@","x",".","i","o">>, name |-> <<"B">>, picture |-> None],
    [sub |-> <<"3">>, email |-> <<"e","@","y","x",".","i","o">>, name |-> <<"E">>, picture |-> None] }

\* browsers, each with its own session cookie and at most one request in flight
Clients == {"c1", "c2"}

\* str(uuid.uuid4())[:8], main.py:171
UniqueIds == { <<"0","0","0","0","0","0","0","1">> }

\* uploaded files: filename, bytes, declared content type
TextPlain == <<"text/plain">>
OctetStream == <<"application/octet-stream">>
Uploads ==
  { [filename |-> <<"a",".","t">>, content |-> <<"x","y">>, content_type |-> TextPlain],
    [filename |-> <<"_",".","t">>, content |-> <<>>, content_type |-> None],
    [filename |-> <<>>, content |-> <<"x">>, content_type |-> TextPlain] }
NoUpload == [filename |-> None, content |-> None, content_type |-> None]

\* the "key" of a rekey request body
RawKeys ==
  { <<>>, <<" ">>, <<"_">>, <<"a">>, <<" ","N"," ","k","."," ">> }

ProxyUrl(r2_key) == <<"BASE_URL/f/">> \o r2_key
ServePath(r2_key) == <<"/f/">> \o r2_key
\* the short link the provider serves for a key of DUB_DOMAIN
ShortLink(key) == <<"https://DUB_DOMAIN/">> \o key
\* the ids the provider gives its links
LinkIdOf(n) == <<"link_", ToString(n)>>
\* the key the provider makes up when it is given none
GeneratedKey(n) == <<"g", ToString(n)>>
\* the key the provider confirms for a requested key: the key itself, or its
\* own canonical form of it
ProviderKey(key, canonical) == IF canonical THEN key \o <<"~">> ELSE key

\* ---------------------------------------------------------------- state
VARIABLES
  dubApiKey,    \* dub.py:5  DUB_API_KEY is set
  dubDomain,    \* dub.py:6  DUB_DOMAIN is set
  users,        \* table users: id -> row
  files,        \* table files: id -> row
  nextFileId,   \* AUTOINCREMENT of files.id
  blobs,        \* the R2 bucket: key -> object
  links,        \* the provider's links: id -> [key, url]
  nextLinkId,   \* the provider's id generator
  session,      \* per client: the session cookie's user_id
  nav,          \* per client: where the last response sent the browser
  req,          \* per client: the handler invocation in flight
  running,      \* <<c>>: the handler of client c holds the event loop; or None
  started,      \* handler invocations started
  logins        \* OAuth callbacks handled

vars == <<dubApiKey, dubDomain, users, files, nextFileId, blobs, links, nextLinkId,
          session, nav, req, running, started, logins>>

config == <<dubApiKey, dubDomain>>
database == <<users, files, nextFileId>>
provider == <<links, nextLinkId>>
browser == <<session, nav, logins>>

NoFile ==
  [id |-> 0, user_id |-> None, filename |-> None, r2_key |-> None, dub_url |-> None,
   dub_link_id |-> None, dub_key |-> None, content_type |-> None, size_bytes |-> 0]

\* the value of a dub.py call: a dict, or None (ok = FALSE)
NoResult == [ok |-> FALSE, shortLink |-> None, id |-> None, key |-> None]

NoUser == [id |-> None, email |-> None, name |-> None, picture |-> None]

NoBody ==
  [id |-> 0, filename |-> None, r2_key |-> None, dub_url |-> None, dub_key |-> None,
   proxy_url |-> None, success |-> FALSE, content |-> None, media_type |-> None,
   disposition |-> None, me |-> NoUser, files |-> {}]

\* a handler invocation: its position, its request (file_id, upload, raw: the
\* body's key), its locals (user, r2_key, file, new_key, result), its response
\* (status, detail, body) and the backend calls it has made so far, a failed
\* one marked "!"
IdleReq ==
  [kind |-> "idle", pc |-> "idle", user |-> None, file_id |-> 0, upload |-> NoUpload,
   raw |-> None, r2_key |-> None, file |-> NoFile, new_key |-> None,
   result |-> NoResult, status |-> 0, detail |-> "", body |-> NoBody, calls |-> <<>>]

\* where a browser is: the page or redirect target (at) with its status and,
\* for the denied page, the email it names (detail); the next parameter it
\* carries; the file path it was first turned away from (origin); the handler
\* that sent it there (by) and, for the callback, the email that the identity
\* provider returned (email)
NoNav == [at |-> None, status |-> 0, detail |-> None, next |-> None, origin |-> None,
          by |-> "none", email |-> None]

\* database.get_or_create_user: the row after the UPDATE or the INSERT
UserRow(ident) == [id |-> ident.sub, email |-> ident.email, name |-> ident.name,
                   picture |-> ident.picture]

\* the state after startup: init_db has created the empty tables, nobody has
\* signed in
Fresh ==
  /\ dubApiKey \in BOOLEAN
  /\ dubDomain \in BOOLEAN
  /\ users = <<>>
  /\ files = <<>>
  /\ nextFileId = 1
  /\ blobs = <<>>
  /\ links = <<>>
  /\ nextLinkId = 1
  /\ session = [c \in Clients |-> None]
  /\ nav = [c \in Clients |-> NoNav]
  /\ req = [c \in Clients |-> IdleReq]
  /\ running = None
  /\ started = 0
  /\ logins = 0

\* the states the file lifecycle starts from: the two users of the allowed
\* domain have signed in before (auth_callback has stored their rows), client
\* c1 holds the first one's session, client c2 the second one's or none
Allowed == {i \in Identities : EndsWith(i.email, <<"@">> \o ALLOWED_EMAIL_DOMAIN)}
Init ==
  /\ dubApiKey \in BOOLEAN
  /\ dubDomain \in BOOLEAN
  /\ users = [u \in {i.sub : i \in Allowed} |->
                UserRow(CHOOSE i \in Allowed : i.sub = u)]
  /\ files = <<>>
  /\ nextFileId = 1
  /\ blobs = <<>>
  /\ links = <<>>
  /\ nextLinkId = 1
  /\ session \in {s \in [Clients -> {None, <<"1">>, <<"2">>}] :
                   s["c1"] = <<"1">> /\ s["c2"] # <<"1">>}
  /\ nav = [c \in Clients |-> NoNav]
  /\ req = [c \in Clients |-> IdleReq]
  /\ running = None
  /\ started = 0
  /\ logins = 0

\* ---------------------------------------------------------- Record Store
Truthy(v) == v # None /\ v # <<>>

\* database.get_user_by_id
get_user_by_id(user_id) ==
  IF user_id \in DOMAIN users THEN user_id ELSE None

\* database.get_file_by_id
get_file_by_id(file_id) ==
  IF file_id \in DOMAIN files THEN files[file_id] ELSE NoFile

\* database.get_file_by_r2_key
get_file_by_r2_key(r2_key) ==
  IF \E f \in DOMAIN files : files[f].r2_key = r2_key
  THEN files[CHOOSE f \in DOMAIN files : files[f].r2_key = r2_key]
  ELSE NoFile

\* mutant: filename and r2_key bound to each other's column
NewFileRow_SwappedColumns(id, user_id, filename, r2_key, content_type, size_bytes) ==
  [id |-> id, user_id |-> user_id, filename |-> r2_key, r2_key |-> filename,
   dub_url |-> None, dub_link_id |-> None, dub_key |-> None,
   content_type |-> content_type, size_bytes |-> size_bytes]

\* the row database.create_file inserts
NewFileRow(id, user_id, filename, r2_key, content_type, size_bytes) ==
  [id |-> id, user_id |-> user_id, filename |-> filename, r2_key |-> r2_key,
   dub_url |-> None, dub_link_id |-> None, dub_key |-> None,
   content_type |-> content_type, size_bytes |-> size_bytes]

Put(f, k, v) == [x \in DOMAIN f \cup {k} |-> IF x = k THEN v ELSE f[x]]
Remove(f, k) == [x \in DOMAIN f \ {k} |-> f[x]]

\* mutant: the UPDATE of a table without the dub_key column
update_file_dub_url_NoKey(file_id, dub_url, dub_link_id, dub_key) ==
  IF file_id \in DOMAIN files
  THEN [files EXCEPT ![file_id].dub_url = dub_url,
                     ![file_id].dub_link_id = dub_link_id]
  ELSE files

\* database.update_file_dub_url: UPDATE ... WHERE id = ?
update_file_dub_url(file_id, dub_url, dub_link_id, dub_key) ==
  IF file_id \in DOMAIN files
  THEN [files EXCEPT ![file_id].dub_url = dub_url,
                     ![file_id].dub_link_id = dub_link_id,
                     ![file_id].dub_key = dub_key]
  ELSE files

\* database.update_file_dub_link: UPDATE ... WHERE id = ?
update_file_dub_link(file_id, dub_url, dub_key) ==
  IF file_id \in DOMAIN files
  THEN [files EXCEPT ![file_id].dub_url = dub_url, ![file_id].dub_key = dub_key]
  ELSE files

\* database.delete_file: DELETE ... WHERE id = ?
delete_file_row(file_id) == Remove(files, file_id)

\* ------------------------------------------------------------- requests
\* main.get_current_user
get_current_user(c) ==
  IF ~Truthy(session[c]) THEN None ELSE get_user_by_id(session[c])

\* a handler is entered when the event loop is free
Begin(c) ==
  /\ running = None
  /\ req[c].pc \in {"idle", "done", "aborted"}
  /\ started < MaxRequests
  /\ started' = started + 1

\* a handler goes on when it holds the event loop, or when the loop is free
\* and it is suspended in an await
Turn(c) == running \in {None, <<c>>}

\* the handler goes on to position pc without giving up the event loop
Goto(c, r, pc) ==
  /\ req' = [req EXCEPT ![c] = [r EXCEPT !.pc = pc]]
  /\ running' = <<c>>

\* the handler is suspended at position pc, in an await
Await(c, r, pc) ==
  /\ req' = [req EXCEPT ![c] = [r EXCEPT !.pc = pc]]
  /\ running' = None

\* what is left of a handler invocation when its locals are gone: the
\* request's parameters (file_id, the body's key, serve_file's path parameter)
\* and the calls made
Ended(r, pc) ==
  [IdleReq EXCEPT !.kind = r.kind, !.pc = pc, !.file_id = r.file_id, !.raw = r.raw,
                  !.r2_key = IF r.kind = "serve" THEN r.r2_key ELSE None,
                  !.calls = r.calls]

\* the response leaves the handler
Respond(c, r, status, detail, body) ==
  /\ req' = [req EXCEPT ![c] = [Ended(r, "done") EXCEPT !.status = status,
                                     !.detail = detail, !.body = body]]
  /\ running' = None

Called(r, name) == [r EXCEPT !.calls = Append(@, name)]

\* ------------------------------------------------- POST /api/files
\* main.upload_file up to the Blob Store put: require_auth, the filename
\* check, the storage key
UploadBegin(c, up, unique_id) ==
  /\ Begin(c)
  /\ LET user == get_current_user(c)
         r == [IdleReq EXCEPT !.kind = "upload", !.user = user, !.upload = up]
     IN  IF user = None
         THEN Respond(c, r, 401, "Not authenticated", NoBody)
         ELSE IF up.filename = <<>>
         THEN Respond(c, r, 400, "No filename provided", NoBody)
         ELSE Goto(c, [r EXCEPT !.r2_key = unique_id \o <<"-">> \o up.filename],
                   "r2_upload")
  /\ UNCHANGED <<config, database, blobs, provider, browser>>

\* file.content_type or "application/octet-stream"
ContentTypeOf(up) == IF Truthy(up.content_type) THEN up.content_type ELSE OctetStream

\* mutant: the upload's except prints and goes on, as delete_file's does
UploadR2Put_Swallow(c, outcome) ==
  /\ Turn(c)
  /\ req[c].kind = "upload" /\ req[c].pc = "r2_upload"
  /\ outcome \in {"ok", "error"}
  /\ LET r == Called(req[c], IF outcome = "ok" THEN "r2.put" ELSE "r2.put!")
         object == [content |-> r.upload.content, content_type |-> ContentTypeOf(r.upload)]
     IN  /\ blobs' = IF outcome = "ok" THEN Put(blobs, r.r2_key, object) ELSE blobs
         /\ Goto(c, r, "db_create")
  /\ UNCHANGED <<config, database, provider, browser, started>>

\* r2.upload_file, and main.upload_file's except around it
UploadR2Put(c, outcome) ==
  /\ Turn(c)
  /\ req[c].kind = "upload" /\ req[c].pc = "r2_upload"
  /\ outcome \in {"ok", "error"}
  /\ LET r == Called(req[c], IF outcome = "ok" THEN "r2.put" ELSE "r2.put!")
         object == [content |-> r.upload.content, content_type |-> ContentTypeOf(r.upload)]
     IN  IF outcome = "ok"
         THEN /\ blobs' = Put(blobs, r.r2_key, object)
              /\ Goto(c, r, "db_create")
         ELSE /\ UNCHANGED blobs
              /\ Respond(c, r, 500, "Failed to upload file", NoBody)
  /\ UNCHANGED <<config, database, provider, browser, started>>

\* mutant: files.r2_key without its UNIQUE constraint
UploadDbCreate_NoUnique(c) ==
  /\ Turn(c)
  /\ req[c].kind = "upload" /\ req[c].pc = "db_create"
  /\ LET r == Called(req[c], "db.create")
         row == NewFileRow(nextFileId, r.user, r.upload.filename, r.r2_key,
                           ContentTypeOf(r.upload), Len(r.upload.content))
         rr == [r EXCEPT !.file_id = row.id, !.file = row]
     IN  /\ files' = Put(files, nextFileId, row)
         /\ nextFileId' = nextFileId + 1
         /\ IF ~dubApiKey \/ ~dubDomain
            THEN Goto(c, rr, "upload_finish")
            ELSE Await(c, rr, "dub_create")
  /\ UNCHANGED <<config, users, blobs, provider, browser, started>>

\* database.create_file: the INSERT (r2_key is UNIQUE) and the SELECT of the
\* row; then dub.create_short_link up to its POST, which suspends the handler
UploadDbCreate(c) ==
  /\ Turn(c)
  /\ req[c].kind = "upload" /\ req[c].pc = "db_create"
  /\ LET taken == \E f \in DOMAIN files : files[f].r2_key = req[c].r2_key
         r == Called(req[c], IF taken THEN "db.create!" ELSE "db.create")
         row == NewFileRow(nextFileId, r.user, r.upload.filename, r.r2_key,
                           ContentTypeOf(r.upload), Len(r.upload.content))
         rr == [r EXCEPT !.file_id = row.id, !.file = row]
     IN  IF taken
         THEN \* sqlite3.IntegrityError, not caught
              /\ Respond(c, r, 500, "Internal Server Error", NoBody)
              /\ UNCHANGED <<files, nextFileId>>
         ELSE /\ files' = Put(files, nextFileId, row)
              /\ nextFileId' = nextFileId + 1
              /\ IF ~dubApiKey \/ ~dubDomain
                 THEN Goto(c, rr, "upload_finish")
                 ELSE Await(c, rr, "dub_create")
  /\ UNCHANGED <<config, users, blobs, provider, browser, started>>

KeyTaken(key, except) ==
  \E l \in DOMAIN links : l # except /\ links[l].key = key

\* dub.create_short_link's POST and the reading of its response.  The
\* provider creates the link (created), or refuses (rejected: not 200/201);
\* the request can also raise, its 10 s timeout among the causes, before the
\* provider has acted (timeout) or after it has (timeout_applied).
UploadDubCreate(c, outcome, canonical) ==
  /\ Turn(c)
  /\ req[c].kind = "upload" /\ req[c].pc = "dub_create"
  /\ outcome \in {"created", "rejected", "timeout", "timeout_applied"}
  /\ LET r == Called(req[c], IF outcome = "created" THEN "dub.post" ELSE "dub.post!")
         key == r.upload.filename
         sent == IF Truthy(key) THEN sanitize_key(key) ELSE <<>>
         id == LinkIdOf(nextLinkId)
         resolved == IF sent = <<>> THEN GeneratedKey(nextLinkId)
                     ELSE ProviderKey(sent, canonical)
     IN  /\ IF outcome \in {"created", "timeout_applied"}
            THEN /\ sent = <<>> => ~canonical
                 /\ ~KeyTaken(resolved, None)
                 /\ links' = Put(links, id, [key |-> resolved, url |-> ProxyUrl(r.r2_key)])
                 /\ nextLinkId' = nextLinkId + 1
            ELSE /\ ~canonical
                 /\ UNCHANGED provider
         /\ Await(c, [r EXCEPT !.result =
                IF outcome = "created"
                THEN [ok |-> TRUE, shortLink |-> ShortLink(resolved),
                      id |-> id, key |-> resolved]
                ELSE NoResult], "upload_finish")
  /\ UNCHANGED <<config, database, blobs, browser, started>>

\* mutant: an upload whose short link could not be created is an error
UploadFinish_LinkRequired(c) ==
  /\ Turn(c)
  /\ req[c].kind = "upload" /\ req[c].pc = "upload_finish"
  /\ LET r == req[c]
         res == r.result
         db_file == [r.file EXCEPT !.dub_url = res.shortLink,
                                   !.dub_link_id = res.id, !.dub_key = res.key]
     IN  IF ~res.ok
         THEN /\ Respond(c, r, 500, "Failed to create short link", NoBody)
              /\ UNCHANGED files
         ELSE /\ files' = update_file_dub_url(db_file.id, res.shortLink, res.id, res.key)
              /\ Respond(c, Called(r, "db.update"), 200, "",
                     [NoBody EXCEPT !.id = db_file.id, !.filename = db_file.filename,
                                    !.r2_key = db_file.r2_key, !.dub_url = db_file.dub_url,
                                    !.dub_key = db_file.dub_key,
                                    !.proxy_url = ProxyUrl(r.r2_key)])
  /\ UNCHANGED <<config, users, nextFileId, blobs, provider, browser, started>>

\* main.upload_file after dub.create_short_link: the short-link fields and
\* the response
UploadFinish(c) ==
  /\ Turn(c)
  /\ req[c].kind = "upload" /\ req[c].pc = "upload_finish"
  /\ LET r == req[c]
         res == r.result
         db_file == IF res.ok
                    THEN [r.file EXCEPT !.dub_url = res.shortLink,
                                        !.dub_link_id = res.id, !.dub_key = res.key]
                    ELSE r.file
         rr == IF res.ok THEN Called(r, "db.update") ELSE r
     IN  /\ files' = IF res.ok
                     THEN update_file_dub_url(db_file.id, res.shortLink, res.id, res.key)
                     ELSE files
         /\ Respond(c, [rr EXCEPT !.file = db_file], 200, "",
                [NoBody EXCEPT !.id = db_file.id, !.filename = db_file.filename,
                               !.r2_key = db_file.r2_key, !.dub_url = db_file.dub_url,
                               !.dub_key = db_file.dub_key,
                               !.proxy_url = ProxyUrl(r.r2_key)])
  /\ UNCHANGED <<config, users, nextFileId, blobs, provider, browser, started>>

\* ----------------------------------------- PUT /api/files/{id}/link
\* main.update_file_link up to await request.json(): require_auth and the
\* lookup
RekeyBegin(c, file_id, raw) ==
  /\ Begin(c)
  /\ LET user == get_current_user(c)
         file == get_file_by_id(file_id)
         r == [IdleReq EXCEPT !.kind = "rekey", !.user = user, !.file_id = file_id,
                              !.raw = raw]
         r1 == [Called(r, "db.get") EXCEPT !.file = file]
     IN  IF user = None
         THEN Respond(c, r, 401, "Not authenticated", NoBody)
         ELSE IF file = NoFile
         THEN Respond(c, r1, 404, "File not found", NoBody)
         ELSE Await(c, r1, "rekey_body")
  /\ UNCHANGED <<config, database, blobs, provider, browser>>

RekeyFailed == "Failed to update short link. The key may already be taken."
KeyRequired == "Key is required"
NotEditable == "This file does not have an editable short link"

\* mutant: the row's link id is not checked before the provider is called
RekeyCheck_NoLinkCheck(c) ==
  /\ Turn(c)
  /\ req[c].kind = "rekey" /\ req[c].pc = "rekey_body"
  /\ LET r == req[c]
         new_key == StripChars(r.raw, Whitespace)
         sanitized_key == sanitize_key(new_key)
     IN  IF ~Truthy(new_key)
         THEN Respond(c, r, 400, KeyRequired, NoBody)
         ELSE IF ~dubApiKey \/ ~dubDomain \/ ~Truthy(sanitized_key)
         THEN Respond(c, r, 500, RekeyFailed, NoBody)
         ELSE Await(c, [r EXCEPT !.new_key = sanitized_key], "dub_update")
  /\ UNCHANGED <<config, database, blobs, provider, browser, started>>

\* mutant: update_short_link sends the sanitized key even when it is empty,
\* as create_short_link does
RekeyCheck_NoEmptyCheck(c) ==
  /\ Turn(c)
  /\ req[c].kind = "rekey" /\ req[c].pc = "rekey_body"
  /\ LET r == req[c]
         new_key == StripChars(r.raw, Whitespace)
         sanitized_key == sanitize_key(new_key)
     IN  IF ~Truthy(new_key)
         THEN Respond(c, r, 400, KeyRequired, NoBody)
         ELSE IF ~Truthy(r.file.dub_link_id)
         THEN Respond(c, r, 400, NotEditable, NoBody)
         ELSE IF ~dubApiKey \/ ~dubDomain
         THEN Respond(c, r, 500, RekeyFailed, NoBody)
         ELSE Await(c, [r EXCEPT !.new_key = sanitized_key], "dub_update")
  /\ UNCHANGED <<config, database, blobs, provider, browser, started>>

\* main.update_file_link from the request body to the provider call, with
\* the part of dub.update_short_link that runs before its PATCH
RekeyCheck(c) ==
  /\ Turn(c)
  /\ req[c].kind = "rekey" /\ req[c].pc = "rekey_body"
  /\ LET r == req[c]
         new_key == StripChars(r.raw, Whitespace)
         sanitized_key == sanitize_key(new_key)
     IN  IF ~Truthy(new_key)
         THEN Respond(c, r, 400, KeyRequired, NoBody)
         ELSE IF ~Truthy(r.file.dub_link_id)
         THEN Respond(c, r, 400, NotEditable, NoBody)
         ELSE IF ~dubApiKey \/ ~dubDomain \/ ~Truthy(sanitized_key)
         THEN Respond(c, r, 500, RekeyFailed, NoBody)
         ELSE Await(c, [r EXCEPT !.new_key = sanitized_key], "dub_update")
  /\ UNCHANGED <<config, database, blobs, provider, browser, started>>

\* dub.update_short_link's PATCH and the reading of its response.  The
\* provider renames the link (updated) or refuses (rejected: not 200); the
\* request can also raise, its 10 s timeout among the causes, before the
\* provider has acted (timeout) or after it has (timeout_applied).
RekeyDubUpdate(c, outcome, canonical) ==
  /\ Turn(c)
  /\ req[c].kind = "rekey" /\ req[c].pc = "dub_update"
  /\ outcome \in {"updated", "rejected", "timeout", "timeout_applied"}
  /\ LET r == Called(req[c], IF outcome = "updated" THEN "dub.patch" ELSE "dub.patch!")
         link_id == r.file.dub_link_id
         resolved == ProviderKey(r.new_key, canonical)
     IN  /\ IF outcome \in {"updated", "timeout_applied"}
            THEN /\ link_id \in DOMAIN links
                 /\ ~KeyTaken(resolved, link_id)
                 /\ links' = [links EXCEPT ![link_id].key = resolved]
            ELSE /\ ~canonical
                 /\ UNCHANGED links
         /\ Await(c, [r EXCEPT !.result =
                IF outcome = "updated"
                THEN [ok |-> TRUE, shortLink |-> ShortLink(resolved),
                      id |-> None, key |-> resolved]
                ELSE NoResult], "rekey_finish")
  /\ UNCHANGED <<config, database, blobs, nextLinkId, browser, started>>

\* mutant: the key that was asked for is stored and returned, not the
\* provider's
RekeyFinish_StoreRequested(c) ==
  /\ Turn(c)
  /\ req[c].kind = "rekey" /\ req[c].pc = "rekey_finish"
  /\ LET r == req[c]
         res == r.result
     IN  IF ~res.ok
         THEN /\ Respond(c, r, 500, RekeyFailed, NoBody)
              /\ UNCHANGED files
         ELSE /\ files' = update_file_dub_link(r.file_id, ShortLink(r.new_key), r.new_key)
              /\ Respond(c, Called(r, "db.update"), 200, "",
                     [NoBody EXCEPT !.success = TRUE, !.dub_url = ShortLink(r.new_key),
                                    !.dub_key = r.new_key])
  /\ UNCHANGED <<config, users, nextFileId, blobs, provider, browser, started>>

\* main.update_file_link after dub.update_short_link
RekeyFinish(c) ==
  /\ Turn(c)
  /\ req[c].kind = "rekey" /\ req[c].pc = "rekey_finish"
  /\ LET r == req[c]
         res == r.result
     IN  IF ~res.ok
         THEN /\ Respond(c, r, 500, RekeyFailed, NoBody)
              /\ UNCHANGED files
         ELSE /\ files' = update_file_dub_link(r.file_id, res.shortLink, res.key)
              /\ Respond(c, Called(r, "db.update"), 200, "",
                     [NoBody EXCEPT !.success = TRUE, !.dub_url = res.shortLink,
                                    !.dub_key = res.key])
  /\ UNCHANGED <<config, users, nextFileId, blobs, provider, browser, started>>

\* ------------------------------------------- DELETE /api/files/{id}
\* mutant: no not-found check after the lookup
DeleteBegin_NoNotFound(c, file_id) ==
  /\ Begin(c)
  /\ LET user == get_current_user(c)
         file == get_file_by_id(file_id)
         r == [IdleReq EXCEPT !.kind = "delete", !.user = user, !.file_id = file_id]
         r1 == [Called(r, "db.get") EXCEPT !.file = file]
     IN  IF user = None
         THEN Respond(c, r, 401, "Not authenticated", NoBody)
         ELSE Goto(c, r1, "r2_delete")
  /\ UNCHANGED <<config, database, blobs, provider, browser>>

\* mutant: the row is deleted first, right after the lookup
DeleteBegin_RecordFirst(c, file_id) ==
  /\ Begin(c)
  /\ LET user == get_current_user(c)
         file == get_file_by_id(file_id)
         r == [IdleReq EXCEPT !.kind = "delete", !.user = user, !.file_id = file_id]
         r1 == [Called(r, "db.get") EXCEPT !.file = file]
     IN  IF user = None
         THEN /\ Respond(c, r, 401, "Not authenticated", NoBody)
              /\ UNCHANGED files
         ELSE IF file = NoFile
         THEN /\ Respond(c, r1, 404, "File not found", NoBody)
              /\ UNCHANGED files
         ELSE /\ files' = delete_file_row(file_id)
              /\ Goto(c, Called(r1, "db.delete"), "r2_delete")
  /\ UNCHANGED <<config, users, nextFileId, blobs, provider, browser>>

\* mutant: only the uploader may delete
DeleteBegin_OwnerOnly(c, file_id) ==
  /\ Begin(c)
  /\ LET user == get_current_user(c)
         file == get_file_by_id(file_id)
         r == [IdleReq EXCEPT !.kind = "delete", !.user = user, !.file_id = file_id]
         r1 == [Called(r, "db.get") EXCEPT !.file = file]
     IN  IF user = None
         THEN Respond(c, r, 401, "Not authenticated", NoBody)
         ELSE IF file = NoFile
         THEN Respond(c, r1, 404, "File not found", NoBody)
         ELSE IF file.user_id # user
         THEN Respond(c, r1, 403, "Not your file", NoBody)
         ELSE Goto(c, r1, "r2_delete")
  /\ UNCHANGED <<config, database, blobs, provider, browser>>

\* main.delete_file: require_auth and the lookup
DeleteBegin(c, file_id) ==
  /\ Begin(c)
  /\ LET user == get_current_user(c)
         file == get_file_by_id(file_id)
         r == [IdleReq EXCEPT !.kind = "delete", !.user = user, !.file_id = file_id]
         r1 == [Called(r, "db.get") EXCEPT !.file = file]
     IN  IF user = None
         THEN Respond(c, r, 401, "Not authenticated", NoBody)
         ELSE IF file = NoFile
         THEN Respond(c, r1, 404, "File not found", NoBody)
         ELSE Goto(c, r1, "r2_delete")
  /\ UNCHANGED <<config, database, blobs, provider, browser>>

\* mutant: a failed Blob Store delete is an error, as a failed put is
DeleteR2Delete_Abort(c, outcome) ==
  /\ Turn(c)
  /\ req[c].kind = "delete" /\ req[c].pc = "r2_delete"
  /\ outcome \in {"ok", "error"}
  /\ LET r == Called(req[c], IF outcome = "ok" THEN "r2.delete" ELSE "r2.delete!")
     IN  /\ blobs' = IF outcome = "ok" THEN Remove(blobs, r.file.r2_key) ELSE blobs
         /\ IF outcome = "error"
            THEN Respond(c, r, 500, "Failed to delete file", NoBody)
            ELSE IF Truthy(r.file.dub_link_id) /\ dubApiKey
            THEN Await(c, r, "dub_delete")
            ELSE Goto(c, r, "db_delete")
  /\ UNCHANGED <<config, database, provider, browser, started>>

\* r2.delete_file inside main.delete_file's try: an exception is printed and
\* the handler goes on, to dub.delete_short_link (up to its DELETE, which
\* suspends the handler) when the row has a link id
DeleteR2Delete(c, outcome) ==
  /\ Turn(c)
  /\ req[c].kind = "delete" /\ req[c].pc = "r2_delete"
  /\ outcome \in {"ok", "error"}
  /\ LET r == Called(req[c], IF outcome = "ok" THEN "r2.delete" ELSE "r2.delete!")
     IN  /\ blobs' = IF outcome = "ok" THEN Remove(blobs, r.file.r2_key) ELSE blobs
         /\ IF Truthy(r.file.dub_link_id) /\ dubApiKey
            THEN Await(c, r, "dub_delete")
            ELSE Goto(c, r, "db_delete")
  /\ UNCHANGED <<config, database, provider, browser, started>>

\* dub.delete_short_link's DELETE; main.delete_file ignores its value.  The
\* provider removes the link (deleted: 200/204) or refuses (rejected); the
\* request can also raise before the provider has acted (timeout) or after
\* it has (timeout_applied).
DeleteDubDelete(c, outcome) ==
  /\ Turn(c)
  /\ req[c].kind = "delete" /\ req[c].pc = "dub_delete"
  /\ outcome \in {"deleted", "rejected", "timeout", "timeout_applied"}
  /\ LET link_id == req[c].file.dub_link_id
         r == Called(req[c], IF outcome = "deleted" THEN "dub.delete" ELSE "dub.delete!")
     IN  /\ IF outcome \in {"deleted", "timeout_applied"}
            THEN /\ link_id \in DOMAIN links
                 /\ links' = Remove(links, link_id)
            ELSE UNCHANGED links
         /\ Await(c, r, "db_delete")
  /\ UNCHANGED <<config, database, blobs, nextLinkId, browser, started>>

\* database.delete_file and main.delete_file's response
DeleteDbDelete(c) ==
  /\ Turn(c)
  /\ req[c].kind = "delete" /\ req[c].pc = "db_delete"
  /\ files' = delete_file_row(req[c].file_id)
  /\ Respond(c, Called(req[c], "db.delete"), 200, "", [NoBody EXCEPT !.success = TRUE])
  /\ UNCHANGED <<config, users, nextFileId, blobs, provider, browser, started>>

\* the process stops between two steps: no handler in flight ever resumes;
\* the tables, the bucket, the provider and the session cookies stay
InFlight(c) == req[c].pc \notin {"idle", "done", "aborted"}
Crash ==
  /\ \E c \in Clients : InFlight(c)
  /\ req' = [c \in Clients |->
         IF InFlight(c) THEN Ended(req[c], "aborted") ELSE req[c]]
  /\ running' = None
  /\ UNCHANGED <<config, database, blobs, provider, browser, started>>

\* --------------------------------------------------- GET /f/{r2_key}
LoginPath == <<"/auth/login">>
HomePath == <<"/">>
IdentityProvider == <<"accounts.google.com">>
DeniedPage == <<"Access Denied">>
ErrorPage == <<"Authentication failed">>

\* main.serve_file: the session check (a redirect to login, not a 401) and
\* the lookup by storage key
ServeBegin(c, r2_key) ==
  /\ Begin(c)
  /\ LET user == get_current_user(c)
         file == get_file_by_r2_key(r2_key)
         r == [IdleReq EXCEPT !.kind = "serve", !.user = user, !.r2_key = r2_key]
         r1 == [Called(r, "db.get") EXCEPT !.file = file]
     IN  IF user = None
         THEN /\ Respond(c, r, 302, "", NoBody)
              /\ nav' = [nav EXCEPT ![c] =
                     [NoNav EXCEPT !.at = LoginPath, !.status = 302,
                                   !.next = ServePath(r2_key),
                                   !.origin = ServePath(r2_key), !.by = "serve_file"]]
         ELSE /\ IF file = NoFile
                 THEN Respond(c, r1, 404, "File not found", NoBody)
                 ELSE Goto(c, r1, "r2_get")
              /\ UNCHANGED nav
  /\ UNCHANGED <<config, database, blobs, provider, session, logins>>

\* mutant: a blob that cannot be fetched is reported as a missing file
ServeR2Get_NotFound(c, outcome) ==
  /\ Turn(c)
  /\ req[c].kind = "serve" /\ req[c].pc = "r2_get"
  /\ outcome \in {"ok", "error"}
  /\ LET r == Called(req[c], IF outcome = "ok" THEN "r2.get" ELSE "r2.get!")
     IN  IF outcome = "ok"
         THEN /\ r.r2_key \in DOMAIN blobs
              /\ Respond(c, r, 200, "",
                     [NoBody EXCEPT !.content = blobs[r.r2_key].content,
                                    !.media_type = blobs[r.r2_key].content_type,
                                    !.disposition = <<"inline; filename=">> \o r.file.filename])
         ELSE Respond(c, r, 404, "File not found", NoBody)
  /\ UNCHANGED <<config, database, blobs, provider, browser, started>>

\* r2.get_file inside main.serve_file's try
ServeR2Get(c, outcome) ==
  /\ Turn(c)
  /\ req[c].kind = "serve" /\ req[c].pc = "r2_get"
  /\ outcome \in {"ok", "error"}
  /\ LET r == Called(req[c], IF outcome = "ok" THEN "r2.get" ELSE "r2.get!")
     IN  IF outcome = "ok"
         THEN /\ r.r2_key \in DOMAIN blobs
              /\ Respond(c, r, 200, "",
                     [NoBody EXCEPT !.content = blobs[r.r2_key].content,
                                    !.media_type = blobs[r.r2_key].content_type,
                                    !.disposition = <<"inline; filename=">> \o r.file.filename])
         ELSE Respond(c, r, 500, "Failed to retrieve file", NoBody)
  /\ UNCHANGED <<config, database, blobs, provider, browser, started>>

\* ------------------------------------------------------------ /auth/*
\* main.login: the redirect to the identity provider, whose redirect_uri is
\* BASE_URL/auth/callback; the request's query string is not read
Login(c) ==
  /\ logins < MaxLogins
  /\ logins' = logins + 1
  /\ nav' = [nav EXCEPT ![c] =
         [NoNav EXCEPT !.at = IdentityProvider, !.status = 302,
                       !.origin = IF nav[c].at = LoginPath THEN nav[c].origin ELSE None,
                       !.by = "login"]]
  /\ UNCHANGED <<config, database, blobs, provider, session, req, running, started>>

\* the page auth_callback answers with: its status, the email it names, and
\* the email the identity provider returned
CallbackPage(c, at, status, detail, email) ==
  [nav EXCEPT ![c] = [@ EXCEPT !.at = at, !.status = status, !.detail = detail,
                               !.by = "auth_callback", !.email = email]]

\* mutant: the user row is written before the domain check
AuthCallback_StoreFirst(c, ident, tokenOk) ==
  /\ nav[c].at = IdentityProvider
  /\ IF ~tokenOk
     THEN /\ nav' = CallbackPage(c, ErrorPage, 400, None, None)
          /\ UNCHANGED <<users, session>>
     ELSE IF \E u \in DOMAIN users : u # ident.sub /\ users[u].email = ident.email
     THEN /\ nav' = CallbackPage(c, ErrorPage, 400, None, ident.email)
          /\ UNCHANGED <<users, session>>
     ELSE IF ~EndsWith(ident.email, <<"@">> \o ALLOWED_EMAIL_DOMAIN)
     THEN /\ users' = Put(users, ident.sub, UserRow(ident))
          /\ nav' = CallbackPage(c, DeniedPage, 403, ident.email, ident.email)
          /\ UNCHANGED session
     ELSE /\ users' = Put(users, ident.sub, UserRow(ident))
          /\ session' = [session EXCEPT ![c] = ident.sub]
          /\ nav' = CallbackPage(c, HomePath, 302, None, ident.email)
  /\ UNCHANGED <<config, files, nextFileId, blobs, provider, req, running, started, logins>>

\* main.auth_callback, for the identity the provider returns; tokenOk is
\* whether authorize_access_token returned a token with userinfo
AuthCallback(c, ident, tokenOk) ==
  /\ nav[c].at = IdentityProvider
  /\ IF ~tokenOk
     THEN /\ nav' = CallbackPage(c, ErrorPage, 400, None, None)
          /\ UNCHANGED <<users, session>>
     ELSE IF ~EndsWith(ident.email, <<"@">> \o ALLOWED_EMAIL_DOMAIN)
     THEN /\ nav' = CallbackPage(c, DeniedPage, 403, ident.email, ident.email)
          /\ UNCHANGED <<users, session>>
     ELSE IF \E u \in DOMAIN users : u # ident.sub /\ users[u].email = ident.email
     THEN \* sqlite3.IntegrityError (email is UNIQUE), caught: 400
          /\ nav' = CallbackPage(c, ErrorPage, 400, None, ident.email)
          /\ UNCHANGED <<users, session>>
     ELSE /\ users' = Put(users, ident.sub, UserRow(ident))
          /\ session' = [session EXCEPT ![c] = ident.sub]
          /\ nav' = CallbackPage(c, HomePath, 302, None, ident.email)
  /\ UNCHANGED <<config, files, nextFileId, blobs, provider, req, running, started, logins>>

\* main.logout
Logout(c) ==
  /\ Truthy(session[c])
  /\ session' = [session EXCEPT ![c] = None]
  /\ nav' = [nav EXCEPT ![c] = [NoNav EXCEPT !.at = HomePath, !.status = 302,
                                              !.by = "logout"]]
  /\ UNCHANGED <<config, database, blobs, provider, req, running, started, logins>>

\* ------------------------------------------------------ specification
FileIds == 1..nextFileId
UnknownKey == <<"n","o">>
ServeKeys == {files[f].r2_key : f \in DOMAIN files} \cup DOMAIN blobs \cup {UnknownKey}
DubOutcomes(done) == {done, "rejected", "timeout", "timeout_applied"}

Next ==
  \/ \E c \in Clients, up \in Uploads, u \in UniqueIds : UploadBegin(c, up, u)
  \/ \E c \in Clients, o \in {"ok", "error"} : UploadR2Put(c, o)
  \/ \E c \in Clients : UploadDbCreate(c)
  \/ \E c \in Clients, o \in DubOutcomes("created"), k \in BOOLEAN : UploadDubCreate(c, o, k)
  \/ \E c \in Clients : UploadFinish(c)
  \/ \E c \in Clients, f \in FileIds, k \in RawKeys : RekeyBegin(c, f, k)
  \/ \E c \in Clients : RekeyCheck(c)
  \/ \E c \in Clients, o \in DubOutcomes("updated"), k \in BOOLEAN : RekeyDubUpdate(c, o, k)
  \/ \E c \in Clients : RekeyFinish(c)
  \/ \E c \in Clients, f \in FileIds : DeleteBegin(c, f)
  \/ \E c \in Clients, o \in {"ok", "error"} : DeleteR2Delete(c, o)
  \/ \E c \in Clients, o \in DubOutcomes("deleted") : DeleteDubDelete(c, o)
  \/ \E c \in Clients : DeleteDbDelete(c)
  \/ \E c \in Clients, k \in ServeKeys : ServeBegin(c, k)
  \/ \E c \in Clients, o \in {"ok", "error"} : ServeR2Get(c, o)
  \/ Crash

Spec == Init /\ [][Next]_vars

\* ------------------------------------- GET /auth/me, GET /api/files
\* main.get_me
GetMe(c) ==
  /\ Begin(c)
  /\ LET user == get_current_user(c)
         r == [IdleReq EXCEPT !.kind = "me", !.user = user]
     IN  IF user = None
         THEN Respond(c, r, 401, "Not authenticated", NoBody)
         ELSE Respond(c, r, 200, "", [NoBody EXCEPT !.me = users[user]])
  /\ UNCHANGED <<config, database, blobs, provider, browser>>

\* database.get_all_files: the rows of files joined with their uploader
get_all_files ==
  { [file |-> files[f], uploader_email |-> users[files[f].user_id].email,
     uploader_name |-> users[files[f].user_id].name] :
      f \in {g \in DOMAIN files : files[g].user_id \in DOMAIN users} }

\* mutant: the list needs no session
ListFiles_Public(c) ==
  /\ Begin(c)
  /\ LET user == get_current_user(c)
         r == [IdleReq EXCEPT !.kind = "list", !.user = user]
     IN  Respond(c, Called(r, "db.list"), 200, "", [NoBody EXCEPT !.files = get_all_files])
  /\ UNCHANGED <<config, database, blobs, provider, browser>>

\* main.list_files
ListFiles(c) ==
  /\ Begin(c)
  /\ LET user == get_current_user(c)
         r == [IdleReq EXCEPT !.kind = "list", !.user = user]
     IN  IF user = None
         THEN Respond(c, r, 401, "Not authenticated", NoBody)
         ELSE Respond(c, Called(r, "db.list"), 200, "",
                  [NoBody EXCEPT !.files = get_all_files])
  /\ UNCHANGED <<config, database, blobs, provider, browser>>

\* every route of the API
ApiNext ==
  \/ Next
  \/ \E c \in Clients : GetMe(c)
  \/ \E c \in Clients : ListFiles(c)

ApiSpec == Init /\ [][ApiNext]_vars

\* rekeys of a file that is already there: the first user has uploaded
\* "a.t" and the provider has made the short link "a" for it
LinkedUpload == [filename |-> <<"a",".","t">>, content |-> <<"x","y">>,
                 content_type |-> TextPlain]
LinkedKey == (CHOOSE u \in UniqueIds : TRUE) \o <<"-">> \o LinkedUpload.filename
LinkedRow ==
  [NewFileRow(1, <<"1">>, LinkedUpload.filename, LinkedKey,
              ContentTypeOf(LinkedUpload), Len(LinkedUpload.content))
     EXCEPT !.dub_url = ShortLink(sanitize_key(LinkedUpload.filename)),
            !.dub_link_id = LinkIdOf(1),
            !.dub_key = sanitize_key(LinkedUpload.filename)]
LinkedInit ==
  /\ dubApiKey = TRUE
  /\ dubDomain = TRUE
  /\ users = [u \in {i.sub : i \in Allowed} |->
                UserRow(CHOOSE i \in Allowed : i.sub = u)]
  /\ files = Put(<<>>, 1, LinkedRow)
  /\ nextFileId = 2
  /\ blobs = Put(<<>>, LinkedKey, [content |-> LinkedUpload.content,
                                   content_type |-> ContentTypeOf(LinkedUpload)])
  /\ links = Put(<<>>, LinkIdOf(1), [key |-> LinkedRow.dub_key, url |-> ProxyUrl(LinkedKey)])
  /\ nextLinkId = 2
  /\ session \in {s \in [Clients -> {None, <<"1">>, <<"2">>}] :
                   s["c1"] = <<"1">> /\ s["c2"] # <<"1">>}
  /\ nav = [c \in Clients |-> NoNav]
  /\ req = [c \in Clients |-> IdleReq]
  /\ running = None
  /\ started = 0
  /\ logins = 0

RekeyNext ==
  \/ \E c \in Clients, f \in FileIds, k \in RawKeys : RekeyBegin(c, f, k)
  \/ \E c \in Clients : RekeyCheck(c)
  \/ \E c \in Clients, o \in DubOutcomes("updated"), k \in BOOLEAN : RekeyDubUpdate(c, o, k)
  \/ \E c \in Clients : RekeyFinish(c)
  \/ Crash

RekeySpec == LinkedInit /\ [][RekeyNext]_vars

\* dub.sanitize_key on its own: each client holds a filename and has its key
\* derived.  The filenames are a run of "a" of a length around the key limit,
\* followed by a short tail.
Repeat(ch, n) == [i \in 1..n |-> ch]
PadLengths == {0, 1, KeyLimit - 2, KeyLimit - 1, KeyLimit}
ExampleName == <<"M","y"," ","R","e","p","o","r","t"," ","(","F","i","n","a","l",")",".","p","d","f">>
Tails ==
  { <<>>, <<".","t">>, <<"-","b",".","t">>, <<" ","B","9",".","t">>, <<"_">>,
    <<"_","_","c">>, <<"-",".","t">>, <<".">>, <<"/","_",".","t">>, ExampleName }
Filenames == {Repeat("a", n) \o t : n \in PadLengths, t \in Tails}

\* a derivation not yet made: the filename is held, the key is not there
HeldName(name) ==
  [IdleReq EXCEPT !.kind = "sanitize", !.pc = "held",
                  !.upload = [NoUpload EXCEPT !.filename = name]]

KeyInit ==
  /\ dubApiKey = TRUE
  /\ dubDomain = TRUE
  /\ users = <<>>
  /\ files = <<>>
  /\ nextFileId = 1
  /\ blobs = <<>>
  /\ links = <<>>
  /\ nextLinkId = 1
  /\ session = [c \in Clients |-> None]
  /\ nav = [c \in Clients |-> NoNav]
  /\ req \in [Clients -> {HeldName(name) : name \in Filenames}]
  /\ running = None
  /\ started = 0
  /\ logins = 0

SanitizeKey(c) ==
  /\ req[c].kind = "sanitize" /\ req[c].pc = "held"
  /\ req' = [req EXCEPT ![c] =
         [req[c] EXCEPT !.pc = "done",
                        !.new_key = sanitize_key(req[c].upload.filename)]]
  /\ UNCHANGED <<config, database, blobs, provider, browser, running, started>>

KeyNext == \E c \in Clients : SanitizeKey(c)

KeySpec == KeyInit /\ [][KeyNext]_vars

\* signing in and out, and what an unauthenticated browser is told
AuthNext ==
  \/ \E c \in Clients : Login(c)
  \/ \E c \in Clients, i \in Identities, ok \in BOOLEAN : AuthCallback(c, i, ok)
  \/ \E c \in Clients : Logout(c)
  \/ \E c \in Clients, k \in ServeKeys : ServeBegin(c, k)

AuthSpec == Fresh /\ [][AuthNext]_vars

\* ============================================================== claims
Has(r, name) == \E i \in DOMAIN r.calls : r.calls[i] = name
Stores == <<users, files, nextFileId, blobs, links, nextLinkId>>
\* client c's handler is entered in this step
Entered(c) == req[c].pc \in {"idle", "done", "aborted"} /\ req'[c] # req[c]

\* C1: an upload whose Blob Store put fails ends at once with 500 "Failed to
\* upload file"; the put is the only backend call it has made: it has created
\* no row (it has no file id) and no short link.
C1_PutFailureAborts ==
  \A c \in Clients :
    Has(req[c], "r2.put!") =>
      /\ req[c].pc = "done"
      /\ req[c].status = 500 /\ req[c].detail = "Failed to upload file"
      /\ req[c].calls = <<"r2.put!">>
      /\ req[c].file_id = 0

C1_Witness ==
  \E c \in Clients :
    req[c].kind = "upload" /\ Has(req[c], "r2.put!") /\ req[c].status = 500

\* C2: an upload that has created its row and whose short link was not
\* created (provider unconfigured, refusing, or timing out) answers 200 with
\* no short link, and the row, as long as it exists, has url, link id and key
\* all null.
C2_LinkFailureKeepsUpload ==
  \A c \in Clients :
    ( /\ req[c].kind = "upload" /\ req[c].pc = "done"
      /\ req[c].file_id # 0
      /\ ~Has(req[c], "dub.post") ) =>
      /\ req[c].status = 200
      /\ req[c].body.id = req[c].file_id
      /\ req[c].body.dub_url = None /\ req[c].body.dub_key = None
      /\ req[c].file_id \in DOMAIN files =>
           /\ files[req[c].file_id].dub_url = None
           /\ files[req[c].file_id].dub_link_id = None
           /\ files[req[c].file_id].dub_key = None

C2_Witness ==
  \E c \in Clients :
    /\ req[c].kind = "upload" /\ req[c].pc = "done" /\ req[c].status = 200
    /\ Has(req[c], "dub.post!")
    /\ req[c].file_id \in DOMAIN files
    /\ files[req[c].file_id].dub_link_id = None

\* C3: a delete that found its row and has answered has answered success and
\* the row is gone, whether or not the Blob Store delete and the short-link
\* delete failed.
C3_DeleteSurvivesBackendFailure ==
  \A c \in Clients :
    ( /\ req[c].kind = "delete" /\ req[c].pc = "done"
      /\ Has(req[c], "r2.delete") \/ Has(req[c], "r2.delete!") ) =>
      /\ req[c].status = 200 /\ req[c].body.success
      /\ req[c].file_id \notin DOMAIN files

C3_Witness ==
  \E c \in Clients :
    /\ req[c].kind = "delete" /\ req[c].pc = "done" /\ req[c].status = 200
    /\ Has(req[c], "r2.delete!") /\ Has(req[c], "dub.delete!")
    /\ req[c].file_id \notin DOMAIN files

\* C4: a delete, by an authenticated caller, of an id that has no row answers
\* 404 in its first step, and that step changes no table, no blob and no link.
C4_DeleteMissingIsNotFound ==
  [][\A c \in Clients :
       ( /\ Entered(c)
         /\ req'[c].kind = "delete"
         /\ get_current_user(c) # None
         /\ req'[c].file_id \notin DOMAIN files ) =>
         /\ req'[c].pc = "done" /\ req'[c].status = 404
         /\ req'[c].calls = <<"db.get">>
         /\ UNCHANGED Stores]_vars

C4_Witness ==
  \E c \in Clients :
    /\ req[c].kind = "delete" /\ req[c].pc = "done" /\ req[c].status = 404
    /\ files # <<>>

\* C5: a row leaves the files table only in the last step of a delete of it,
\* whose Blob Store delete and (for a row with a link) short-link delete have
\* been made before, and which answers success in that same step; a delete
\* answers success in no other step.  So a delete interrupted earlier leaves
\* the row.
BlobAndLinkStepsMade(r) ==
  /\ Has(r, "r2.delete") \/ Has(r, "r2.delete!")
  /\ (Truthy(r.file.dub_link_id) /\ dubApiKey) =>
       (Has(r, "dub.delete") \/ Has(r, "dub.delete!"))
C5_RecordDeletedLast ==
  [][/\ \A f \in DOMAIN files :
          f \notin DOMAIN files' =>
            \E c \in Clients :
              /\ req[c].kind = "delete" /\ req[c].pc = "db_delete"
              /\ req[c].file_id = f
              /\ BlobAndLinkStepsMade(req[c])
              /\ req'[c].pc = "done" /\ req'[c].status = 200
     /\ \A c \in Clients :
          ( /\ req'[c] # req[c]
            /\ req'[c].kind = "delete" /\ req'[c].pc = "done"
            /\ req'[c].status = 200 ) =>
            /\ req[c].kind = "delete" /\ req[c].pc = "db_delete"
            /\ req'[c].file_id \notin DOMAIN files'
            /\ req'[c].calls[Len(req'[c].calls)] = "db.delete"]_vars

C5_Witness ==
  \E c \in Clients :
    /\ req[c].kind = "delete" /\ req[c].pc = "aborted"
    /\ Has(req[c], "r2.delete")
    /\ Has(req[c], "dub.delete") \/ Has(req[c], "dub.delete!")
    /\ ~Has(req[c], "db.delete")
    /\ req[c].file_id \in DOMAIN files

\* client c's rekey goes from the request body to its next position
RekeyChecked(c) ==
  /\ req[c].kind = "rekey" /\ req[c].pc = "rekey_body"
  /\ req'[c].pc \notin {"rekey_body", "aborted"}
NoProviderCall(r) == ~Has(r, "dub.patch") /\ ~Has(r, "dub.patch!")

\* C6 as stated: a rekey of a row that has no link id is answered 400 "not
\* editable", without a provider call and without a change to any store.
C6_NoLinkIdIsNotEditable ==
  [][\A c \in Clients :
       (RekeyChecked(c) /\ ~Truthy(req[c].file.dub_link_id)) =>
         /\ req'[c].pc = "done"
         /\ req'[c].status = 400 /\ req'[c].detail = NotEditable
         /\ NoProviderCall(req'[c])
         /\ UNCHANGED Stores]_vars

\* C6 as amended: a rekey of a row that has no link id is answered 400,
\* without a provider call and without a change to any store; the error is
\* "not editable" when the key, stripped of whitespace, is not empty, and
\* "Key is required" when it is.
C6_NoLinkIdIsClientError ==
  [][\A c \in Clients :
       (RekeyChecked(c) /\ ~Truthy(req[c].file.dub_link_id)) =>
         /\ req'[c].pc = "done"
         /\ req'[c].status = 400
         /\ req'[c].detail = IF Truthy(StripChars(req[c].raw, Whitespace))
                             THEN NotEditable ELSE KeyRequired
         /\ NoProviderCall(req'[c])
         /\ UNCHANGED Stores]_vars

C6_Witness ==
  \E c \in Clients :
    /\ req[c].kind = "rekey" /\ req[c].pc = "done"
    /\ req[c].status = 400 /\ req[c].detail = NotEditable
    /\ req[c].file_id \in DOMAIN files
    /\ files[req[c].file_id].dub_link_id = None

\* C7: a rekey whose key is empty, or normalizes to the empty key, is answered
\* with an error (400 or 500) in the step that reads the key, without a
\* provider call and without a change to any store.
NormalizesToEmpty(raw) == ~Truthy(sanitize_key(StripChars(raw, Whitespace)))
C7_EmptyKeyRejectedLocally ==
  [][\A c \in Clients :
       (RekeyChecked(c) /\ NormalizesToEmpty(req[c].raw)) =>
         /\ req'[c].pc = "done"
         /\ req'[c].status \in {400, 500}
         /\ req'[c].calls = <<"db.get">>
         /\ UNCHANGED Stores]_vars

C7_Witness ==
  \E c \in Clients :
    /\ req[c].kind = "rekey" /\ req[c].pc = "done" /\ req[c].status = 500
    /\ Truthy(StripChars(req[c].raw, Whitespace))
    /\ NormalizesToEmpty(req[c].raw)
    /\ req[c].file_id \in DOMAIN files
    /\ Truthy(files[req[c].file_id].dub_link_id)

\* C8 as stated: when the provider call of a rekey fails (no result comes
\* back), neither that call nor the rest of the handler changes the rows or
\* the provider's links, and the handler answers with an error.
C8_FailedRekeyChangesNothing ==
  [][\A c \in Clients :
       req[c].kind = "rekey" =>
         /\ ( /\ req[c].pc = "dub_update" /\ req'[c].pc = "rekey_finish"
              /\ ~req'[c].result.ok ) => UNCHANGED <<files, links>>
         /\ ( /\ req[c].pc = "rekey_finish" /\ req'[c].pc = "done"
              /\ ~req[c].result.ok ) =>
              /\ req'[c].status = 500
              /\ UNCHANGED <<files, links>>]_vars

\* C9: the result of a successful provider call is the key and the url the
\* provider now holds for the link; the handler then answers 200 with exactly
\* that key and url and, when the row still exists, has stored them in it.
C9_RekeyEchoesProvider ==
  [][\A c \in Clients :
       req[c].kind = "rekey" =>
         /\ ( /\ req[c].pc = "dub_update" /\ req'[c].pc = "rekey_finish"
              /\ req'[c].result.ok ) =>
              /\ req[c].file.dub_link_id \in DOMAIN links'
              /\ req'[c].result.key = links'[req[c].file.dub_link_id].key
              /\ req'[c].result.shortLink = ShortLink(req'[c].result.key)
         /\ ( /\ req[c].pc = "rekey_finish" /\ req'[c].pc = "done"
              /\ req[c].result.ok ) =>
              /\ req'[c].status = 200
              /\ req'[c].body.dub_url = req[c].result.shortLink
              /\ req'[c].body.dub_key = req[c].result.key
              /\ req[c].file_id \in DOMAIN files =>
                   /\ req[c].file_id \in DOMAIN files'
                   /\ files'[req[c].file_id].dub_url = req[c].result.shortLink
                   /\ files'[req[c].file_id].dub_key = req[c].result.key]_vars

C9_Witness ==
  \E c \in Clients :
    /\ req[c].kind = "rekey" /\ req[c].pc = "done" /\ req[c].status = 200
    /\ req[c].body.dub_key # sanitize_key(StripChars(req[c].raw, Whitespace))
    /\ req[c].file_id \in DOMAIN files
    /\ files[req[c].file_id].dub_key = req[c].body.dub_key
    /\ files[req[c].file_id].dub_url = req[c].body.dub_url

\* C10 as stated: a browser that was sent from /f/{key} to the login, and has
\* then signed in, is at /f/{key}.
SignedInBy(c) ==
  nav[c].by = "auth_callback" /\ nav[c].at \notin {ErrorPage, DeniedPage}
C10_LoginReturnsToFile ==
  \A c \in Clients :
    (SignedInBy(c) /\ Truthy(nav[c].origin)) => nav[c].at = nav[c].origin

\* C11: an authenticated serve request for a storage key that no row has is
\* answered 404 after the lookup alone; for a key that a row has it goes on to
\* the Blob Store, and is answered 500 when the fetch fails and 200 with the
\* stored bytes and content type when it succeeds.
HasRow(r2_key) == \E f \in DOMAIN files : files[f].r2_key = r2_key
C11_ServeOutcomes ==
  [][\A c \in Clients :
       /\ ( /\ Entered(c) /\ req'[c].kind = "serve"
            /\ get_current_user(c) # None ) =>
              IF HasRow(req'[c].r2_key)
              THEN req'[c].pc = "r2_get" /\ req'[c].calls = <<"db.get">>
              ELSE /\ req'[c].pc = "done" /\ req'[c].status = 404
                   /\ req'[c].calls = <<"db.get">>
       /\ ( /\ req[c].kind = "serve" /\ req[c].pc = "r2_get"
            /\ req'[c].pc = "done" ) =>
              /\ Has(req'[c], "r2.get!") =>
                   req'[c].status = 500 /\ req'[c].body.content = None
              /\ ~Has(req'[c], "r2.get!") =>
                   /\ req'[c].status = 200
                   /\ req[c].r2_key \in DOMAIN blobs
                   /\ req'[c].body.content = blobs[req[c].r2_key].content
                   /\ req'[c].body.media_type = blobs[req[c].r2_key].content_type]_vars

C11_Witness ==
  \E c \in Clients :
    /\ req[c].kind = "serve" /\ req[c].pc = "done" /\ req[c].status = 500
    /\ Has(req[c], "r2.get!")
    /\ HasRow(req[c].r2_key)

\* the keys derived so far: (filename, key) of every finished derivation
Derived(c) == req[c].kind = "sanitize" /\ req[c].pc = "done"
KeyAlphabet == Range(LowerAlphabet) \cup DigitChars \cup {"-"}
Alphanumeric == Range(LowerAlphabet) \cup Range(UpperAlphabet) \cup DigitChars
WellFormedKey(k) ==
  /\ Len(k) <= KeyLimit
  /\ Range(k) \subseteq KeyAlphabet
  /\ k # <<>> => k[1] # "-"
  /\ \A i \in 1..(Len(k) - 1) : ~(k[i] = "-" /\ k[i + 1] = "-")

\* C12 as stated: every derived key is non-empty, made of lowercase letters,
\* digits and hyphens, at most 50 long, without a leading, a trailing or a
\* doubled hyphen.
C12_KeyIsCleanAndNonEmpty ==
  \A c \in Clients :
    Derived(c) =>
      LET k == req[c].new_key
      IN  /\ WellFormedKey(k)
          /\ k # <<>>
          /\ k[Len(k)] # "-"

\* C12 as amended: every derived key is made of lowercase letters, digits
\* and hyphens, is at most 50 long and has no leading and no doubled hyphen;
\* it is empty exactly when the filename without its extension has no letter
\* or digit, and it ends in a hyphen only when it is exactly 50 long (the
\* truncation cut it right after a hyphen).
C12_KeyIsClean ==
  \A c \in Clients :
    Derived(c) =>
      LET k == req[c].new_key
          name == req[c].upload.filename
      IN  /\ WellFormedKey(k)
          /\ k = <<>> <=> Range(SplitextRoot(name)) \cap Alphanumeric = {}
          /\ (k # <<>> /\ k[Len(k)] = "-") => Len(k) = KeyLimit
          /\ name = ExampleName =>
               k = <<"m","y","-","r","e","p","o","r","t","-","f","i","n","a","l">>

C12_Witness ==
  \E c \in Clients :
    /\ Derived(c)
    /\ req[c].new_key # <<>>
    /\ req[c].new_key[Len(req[c].new_key)] = "-"

\* C13: a get-me, list, upload, rekey or delete request that arrives without
\* a resolved user is answered 401 at once: it makes no backend call and no
\* store changes.
ApiKinds == {"me", "list", "upload", "rekey", "delete"}
C13_UnauthenticatedIs401 ==
  [][\A c \in Clients :
       ( /\ Entered(c) /\ req'[c].kind \in ApiKinds
         /\ get_current_user(c) = None ) =>
         /\ req'[c].pc = "done"
         /\ req'[c].status = 401
         /\ req'[c].calls = <<>>
         /\ UNCHANGED Stores]_vars

C13_Witness ==
  \E c \in Clients :
    /\ get_current_user(c) = None
    /\ req[c].kind = "list" /\ req[c].pc = "done" /\ req[c].status = 401
    /\ files # <<>>

\* C14: when the callback receives an identity whose email does not end with
\* "@" and the allowed domain, it answers 403 with the denied page naming that
\* email, and the users table and every session stay as they were: a client
\* without a session still has none.
InAllowedDomain(email) == EndsWith(email, <<"@">> \o ALLOWED_EMAIL_DOMAIN)
CallbackFor(c) == nav[c].at = IdentityProvider /\ nav'[c].by = "auth_callback"
C14_OutsiderDenied ==
  [][\A c \in Clients :
       ( /\ CallbackFor(c)
         /\ Truthy(nav'[c].email) /\ ~InAllowedDomain(nav'[c].email) ) =>
         /\ nav'[c].at = DeniedPage
         /\ nav'[c].status = 403
         /\ nav'[c].detail = nav'[c].email
         /\ UNCHANGED <<users, session>>
         /\ get_current_user(c) = None => session'[c] = None]_vars

C14_Witness ==
  \E c \in Clients :
    /\ nav[c].at = DeniedPage /\ nav[c].status = 403
    /\ Truthy(nav[c].detail) /\ ~InAllowedDomain(nav[c].detail)
    /\ session[c] = None
    /\ \A u \in DOMAIN users : users[u].email # nav[c].detail

\* C15: right after create_file has inserted a row, get_file_by_id of the new
\* id and get_file_by_r2_key of the storage key both return a row with the
\* owner, filename, storage key, content type and size that were submitted,
\* and it is the row create_file returned.
Created(c) ==
  /\ req[c].kind = "upload" /\ req[c].pc = "db_create"
  /\ Has(req'[c], "db.create")
Submitted(r, row) ==
  /\ row.user_id = r.user
  /\ row.filename = r.upload.filename
  /\ row.r2_key = r.r2_key
  /\ row.content_type = ContentTypeOf(r.upload)
  /\ row.size_bytes = Len(r.upload.content)
\* what the two getters return for the id and the storage key of c's upload
GotById(c) == get_file_by_id(req[c].file_id)
GotByKey(c) == get_file_by_r2_key(req[c].r2_key)
C15_CreateThenGet ==
  [][\A c \in Clients :
       Created(c) =>
         /\ GotById(c)' # NoFile
         /\ Submitted(req[c], GotById(c)')
         /\ Submitted(req[c], GotByKey(c)')
         /\ GotById(c)' = req'[c].file
         /\ GotByKey(c)' = req'[c].file]_vars

C15_Witness ==
  \E c \in Clients :
    /\ req[c].kind = "upload" /\ req[c].pc \in {"dub_create", "upload_finish"}
    /\ Has(req[c], "db.create")
    /\ req[c].upload.content_type = None
    /\ GotById(c) = req[c].file
    /\ GotByKey(c) = req[c].file
    /\ Submitted(req[c], GotById(c))

\* C16: in every reachable state every row has its link id and its link key
\* both set or both null.
C16_LinkIdAndKeyTogether ==
  \A f \in DOMAIN files :
    Truthy(files[f].dub_link_id) <=> Truthy(files[f].dub_key)

C16_Witness ==
  \E c \in Clients :
    /\ req[c].kind = "rekey" /\ req[c].pc = "done" /\ req[c].status = 200
    /\ req[c].file_id \in DOMAIN files
    /\ Truthy(files[req[c].file_id].dub_link_id)
    /\ files[req[c].file_id].dub_key = req[c].body.dub_key

\* C17: no row is without a blob at the start, and a step leads to a row
\* without a blob only when the row was without a blob before it, or when the
\* step is the successful blob delete of a delete request for that row: no
\* upload, rekey or serve step makes such a row.
Blobless(fs, bs, f) == f \in DOMAIN fs /\ fs[f].r2_key \notin DOMAIN bs
BlobDeleteOf(c, f) ==
  /\ req[c].kind = "delete" /\ req[c].pc = "r2_delete" /\ req[c].file_id = f
  /\ Has(req'[c], "r2.delete")
C17_BloblessOnlyByDelete ==
  [][\A f \in DOMAIN files' :
       Blobless(files', blobs', f) =>
         \/ Blobless(files, blobs, f)
         \/ \E c \in Clients : BlobDeleteOf(c, f)]_vars

C17_Witness ==
  \E f \in DOMAIN files, c \in Clients :
    /\ Blobless(files, blobs, f)
    /\ req[c].kind = "delete" /\ req[c].file_id = f
    /\ Has(req[c], "r2.delete")

\* C18 as stated: an upload whose filename normalizes to the empty key never
\* reaches the provider: it is not suspended in the POST and has made none.
C18_EmptyKeyNeverPosted ==
  \A c \in Clients :
    ( /\ req[c].kind = "upload" /\ InFlight(c)
      /\ Truthy(req[c].upload.filename)
      /\ sanitize_key(req[c].upload.filename) = <<>> ) =>
      /\ req[c].pc # "dub_create"
      /\ ~Has(req[c], "dub.post") /\ ~Has(req[c], "dub.post!")

\* C19: after every step no two rows have the same storage key, and every
\* row that was there before the step and is still there has the storage key
\* and the owner it had.
C19_StorageKeyUniqueAndFixed ==
  [][/\ \A f, g \in DOMAIN files' :
          files'[f].r2_key = files'[g].r2_key => f = g
     /\ \A f \in DOMAIN files \cap DOMAIN files' :
          /\ files'[f].r2_key = files[f].r2_key
          /\ files'[f].user_id = files[f].user_id]_vars

C19_Witness ==
  \E c \in Clients, f \in DOMAIN files :
    /\ req[c].kind = "upload" /\ Has(req[c], "db.create!")
    /\ Truthy(files[f].dub_link_id)

\* C20: what a rekey or a delete of a file does on entry is fixed by the
\* request (file id, key) and the row, not by the caller: for every
\* authenticated caller, owner or not, the handler is, apart from the user it
\* holds, in the same position with the same row read, or has answered the
\* same 404; and no rekey or delete is ever answered 401 or 403 later on.
EnteredAs(kind, file_id, raw) ==
  IF file_id \in DOMAIN files
  THEN [IdleReq EXCEPT !.kind = kind, !.file_id = file_id, !.raw = raw,
                       !.pc = IF kind = "rekey" THEN "rekey_body" ELSE "r2_delete",
                       !.file = files[file_id], !.calls = <<"db.get">>]
  ELSE [IdleReq EXCEPT !.kind = kind, !.file_id = file_id, !.raw = raw,
                       !.pc = "done", !.status = 404, !.detail = "File not found",
                       !.calls = <<"db.get">>]
C20_NoOwnershipCheck ==
  [][\A c \in Clients :
       /\ ( /\ Entered(c) /\ req'[c].kind \in {"rekey", "delete"}
            /\ get_current_user(c) # None ) =>
              /\ [req'[c] EXCEPT !.user = None] =
                   EnteredAs(req'[c].kind, req'[c].file_id, req'[c].raw)
              /\ UNCHANGED Stores
       /\ ( /\ req[c].kind \in {"rekey", "delete"} /\ InFlight(c)
            /\ req'[c].pc = "done" ) => req'[c].status \in {200, 400, 500}]_vars

\* a file uploaded by the first user has been deleted by the second
C20_Witness ==
  /\ session["c1"] = <<"1">> /\ session["c2"] = <<"2">>
  /\ req["c1"].kind = "upload" /\ req["c1"].pc = "done" /\ req["c1"].status = 200
  /\ req["c2"].kind = "delete" /\ req["c2"].pc = "done" /\ req["c2"].status = 200
  /\ req["c2"].file_id = req["c1"].file_id
  /\ req["c2"].file_id \notin DOMAIN files
  /\ Has(req["c2"], "r2.delete") /\ Has(req["c2"], "db.delete")

\* both clients have rekeyed file f and both were answered 200
BothRekeyed(f) ==
  /\ f \in DOMAIN files
  /\ \A c \in Clients :
       /\ req[c].kind = "rekey" /\ req[c].pc = "done" /\ req[c].status = 200
       /\ req[c].file_id = f
ConfirmedKeys == {req[c].body.dub_key : c \in Clients}

\* C21 as stated: once two successful rekeys of one file have both completed,
\* the row's key is the key the provider holds for the link.
C21_RecordFollowsProvider ==
  \A f \in DOMAIN files :
    BothRekeyed(f) => files[f].dub_key = links[files[f].dub_link_id].key

\* C21 as amended: once two successful rekeys of one file have both
\* completed, the row's key and the provider's key are each one of the two
\* keys the provider confirmed, and the row's url is the url of the row's key;
\* the row holds the key of the request that wrote the row last, the provider
\* the key of the request it served last, and the two need not be the same.
C21_RecordHoldsAConfirmedKey ==
  \A f \in DOMAIN files :
    BothRekeyed(f) =>
      /\ files[f].dub_key \in ConfirmedKeys
      /\ files[f].dub_url = ShortLink(files[f].dub_key)
      /\ links[files[f].dub_link_id].key \in ConfirmedKeys

C21_Witness ==
  \E f \in DOMAIN files :
    /\ BothRekeyed(f)
    /\ files[f].dub_key # links[files[f].dub_link_id].key

\* C22 as stated: when an upload and a delete of the row that upload has
\* created have both completed with no failed backend call, every link the
\* provider holds is the link of some row.
FailedCalls ==
  {"r2.put!", "db.create!", "dub.post!", "dub.patch!", "r2.delete!", "dub.delete!", "r2.get!"}
NoCallFailed(r) == Range(r.calls) \cap FailedCalls = {}
CreatedAndDeleted(cu, cd) ==
  /\ req[cu].kind = "upload" /\ req[cu].pc = "done" /\ req[cu].status = 200
  /\ req[cd].kind = "delete" /\ req[cd].pc = "done" /\ req[cd].status = 200
  /\ req[cd].file_id = req[cu].file_id
  /\ NoCallFailed(req[cu]) /\ NoCallFailed(req[cd])
C22_NoOrphanLink ==
  (\E cu, cd \in Clients : CreatedAndDeleted(cu, cd)) =>
    \A l \in DOMAIN links : \E f \in DOMAIN files : files[f].dub_link_id = l

====
